---- MODULE Spec2Model ----
(***************************************************************************)
(* Plant-Disease-Detection (src/app.py): the per-plant model / metadata    *)
(* loaders behind st.cache_resource, translate_text, and the "Detect       *)
(* Disease" handler.                                                       *)
(*                                                                         *)
(* Texts (labels, advice, translated output) are sequences of one-char     *)
(* strings, so that str.replace and the emptiness test act on characters.  *)
(* Scores are integers in units of 0.1 (7 stands for 0.7).                 *)
(***************************************************************************)
EXTENDS Integers, Sequences, FiniteSets, TLC

\* ------------------------------------------------------------ bounds
NumPlants == 2
NumSessions == 2
MaxClasses == 2
MaxScore == 6

\* ------------------------------------------------------------ constants
PLANTS ==
  << "apple", "tomato", "potato", "orange", "chili", "grape", "tea",
     "peach", "coffee", "corn", "cucumber", "jamun", "lemon",
     "mango", "pepper", "rice", "soybean", "sugarcane", "wheat" >>

\* The first NumPlants entries of PLANTS: the plants the model runs with.
Registry == { PLANTS[i] : i \in 1..NumPlants }

\* 0.5, in units of 0.1
LOW_CONFIDENCE == 5

DefaultLang == "en"

\* Two of the eight selectable language codes.
lang_options == { "en", "hi" }

UnknownDisease ==
  << "U","n","k","n","o","w","n"," ","D","i","s","e","a","s","e" >>

NoPreventionAdvice ==
  << "N","o"," ","p","r","e","v","e","n","t","i","o","n"," ","a","d","v","i","c","e",
     " ","a","v","a","i","l","a","b","l","e","." >>

Sessions == 1..NumSessions

\* ------------------------------------------------------------ dictionaries
EmptyMap == << >>

\* dict.get(k, default)
Get(d, k, default) == IF k \in DOMAIN d THEN d[k] ELSE default

\* ------------------------------------------------------------ input sets
LabelRust == << "r","u","s","t" >>
LabelSpot == << "l","_","s" >>
Labels == { LabelRust, LabelSpot }

AdviceTip == << "c","u","t" >>

Indexes == 0..(MaxClasses - 1)

\* A class-map file's content: (label, index) pairs in the order json.load
\* yields them; a JSON object's keys (the labels) are distinct.
ClassMapSources ==
  { << >> }
  \cup { << <<l, i>> >> : l \in Labels, i \in Indexes }
  \cup { s \in [1..2 -> Labels \X Indexes] : s[1][1] # s[2][1] }

SourceRoundTrip == << <<LabelRust, 0>>, <<LabelSpot, 1>> >>
SourceDuplicate == << <<LabelRust, 0>>, <<LabelSpot, 0>> >>

PreventionSpot == (LabelSpot :> AdviceTip)
PreventionOdd == (LabelRust :> << >>) @@ (UnknownDisease :> AdviceTip)

File(exists, content) == [exists |-> exists, content |-> content]

\* Score vectors a predictor may return: 1..MaxClasses scores in 0..MaxScore.
Vectors == UNION { [1..n -> 0..MaxScore] : n \in 1..MaxClasses }

\* Outcome of the external translation call: a result, or an exception.
Outcomes == { "ok", "raise" }

\* ------------------------------------------------------------ pure functions

\* {v: k for k, v in class_map.items()}: later pairs overwrite earlier ones
RECURSIVE InvertFrom(_, _, _)
InvertFrom(src, i, acc) ==
  IF i > Len(src) THEN acc
  ELSE InvertFrom(src, i + 1, (src[i][2] :> src[i][1]) @@ acc)

InvertFirstWins(src) ==
  LET RECURSIVE Go(_, _)
      Go(i, acc) == IF i > Len(src) THEN acc
                    ELSE Go(i + 1, acc @@ (src[i][2] :> src[i][1]))
  IN Go(1, EmptyMap)

InvertClassMap(src) == InvertFrom(src, 1, EmptyMap)

\* np.argmax: scan left to right, keep the first maximum; 0-based result
RECURSIVE ArgmaxFrom(_, _, _)
ArgmaxFrom(pred, i, best) ==
  IF i > Len(pred) THEN best - 1
  ELSE ArgmaxFrom(pred, i + 1, IF pred[i] > pred[best] THEN i ELSE best)

ArgmaxLast(pred) ==
  LET RECURSIVE Go(_, _)
      Go(i, best) == IF i > Len(pred) THEN best - 1
                     ELSE Go(i + 1, IF pred[i] >= pred[best] THEN i ELSE best)
  IN Go(2, 1)

argmax(pred) == ArgmaxFrom(pred, 2, 1)

\* predicted_class.replace("_", " ")
ReplaceUnderscore(text) ==
  [i \in 1..Len(text) |-> IF text[i] = "_" THEN " " ELSE text[i]]

\* What GoogleTranslator(source='en', target=lang).translate(text) returns
\* when it succeeds: some text determined by (lang, text), other than text.
GoogleTranslate(text, lang) == << "[", lang, "]" >> \o text

FastPathLangOnly(text, lang_code) == lang_code = DefaultLang

\* if lang_code == "en" or not text
FastPath(text, lang_code) == lang_code = DefaultLang \/ text = << >>

ExceptReturnsEmpty(text) == << >>

\* except: return text
ExceptReturn(text) == text

\* translate_text; outcome is what the external call does if it is made.
\* called: whether the external call was made.
translate_text(text, lang_code, outcome) ==
  IF FastPath(text, lang_code)
  THEN [result |-> text, called |-> FALSE]
  ELSE IF outcome = "ok"
       THEN [result |-> GoogleTranslate(text, lang_code), called |-> TRUE]
       ELSE [result |-> ExceptReturn(text), called |-> TRUE]

LowConfidenceInclusive(confidence) == confidence <= LOW_CONFIDENCE

\* if confidence < 0.5
LowConfidence(confidence) == confidence < LOW_CONFIDENCE

\* ------------------------------------------------------------ loaders

\* An object returned by keras_load_model; obj tells two loads apart.
\* None: present = FALSE.
None == [present |-> FALSE, plant |-> "", obj |-> 0]

Notice(kind, what, plant) == << kind, what, plant >>

\* lines 145-151, for one plant
LoadInvMap(f) == IF f.exists THEN InvertClassMap(f.content) ELSE EmptyMap

ClassMapNoticeSilent(plant, f) == {}

ClassMapNotice(plant, f) ==
  IF f.exists THEN {} ELSE { Notice("warning", "class_map", plant) }

\* lines 154-159, for one plant
LoadPrevention(f) == IF f.exists THEN f.content ELSE EmptyMap

PreventionNotice(plant, f) ==
  IF f.exists THEN {} ELSE { Notice("warning", "prevention", plant) }

\* load_class_and_prevention_maps(): the returned pair and what it emitted
load_class_and_prevention_maps(fs, obj) ==
  [ value |->
      [ obj |-> obj,
        inv_maps |-> [p \in Registry |-> LoadInvMap(fs[p].classMap)],
        prevention_maps |-> [p \in Registry |-> LoadPrevention(fs[p].prevention)] ],
    notices |->
      UNION { ClassMapNotice(p, fs[p].classMap) \cup PreventionNotice(p, fs[p].prevention)
              : p \in Registry } ]

\* load_plant_model(plant_name)
load_plant_model(plant_name, fs, obj) ==
  IF fs[plant_name].model
  THEN [ value |-> [present |-> TRUE, plant |-> plant_name, obj |-> obj],
         notices |-> {} ]
  ELSE [ value |-> None,
         notices |-> { Notice("error", "model", plant_name) } ]

\* ------------------------------------------------------------ handler

Element(kind, text, value) == [kind |-> kind, text |-> text, value |-> value]

ModelNeverNone(model) == FALSE

\* if model is None
ModelIsNone(model) == ~ model.present

PredictedClass(inv, idx) == Get(inv, idx, UnknownDisease)

PreventionByDisplayName(prev, predicted_class) ==
  Get(prev, ReplaceUnderscore(predicted_class), NoPreventionAdvice)

Prevention(prev, predicted_class) ==
  Get(prev, predicted_class, NoPreventionAdvice)

\* The body of the "Detect Disease" branch once load_plant_model has returned:
\* pred is what model.predict(x)[0] returns, o1 / o2 what the translation
\* backend does on the first / second call if it is called.
DetectDisease(model, inv_maps, prevention_maps, plant, lang_code, pred, o1, o2) ==
  IF ModelIsNone(model)
  THEN [ status |-> "stopped", plant |-> plant, lang_code |-> lang_code,
         predictCalls |-> 0, pred |-> << >>, idx |-> 0, confidence |-> 0,
         predicted_class |-> << >>, prevention |-> << >>,
         lookups |-> 0, labelCalled |-> FALSE, adviceCalled |-> FALSE,
         labelOutcome |-> "none", adviceOutcome |-> "none",
         disease_translated |-> << >>, prevention_translated |-> << >>,
         saved |-> FALSE,
         page |-> << Element("error", << >>, 0) >> ]
  ELSE
    LET idx == argmax(pred)
        confidence == pred[idx + 1]
        predicted_class == PredictedClass(Get(inv_maps, plant, EmptyMap), idx)
        prevention == Prevention(Get(prevention_maps, plant, EmptyMap), predicted_class)
        t1 == translate_text(ReplaceUnderscore(predicted_class), lang_code, o1)
        t2 == translate_text(prevention, lang_code, o2)
    IN [ status |-> "ok", plant |-> plant, lang_code |-> lang_code,
         predictCalls |-> 1, pred |-> pred, idx |-> idx, confidence |-> confidence,
         predicted_class |-> predicted_class, prevention |-> prevention,
         lookups |-> 2, labelCalled |-> t1.called, adviceCalled |-> t2.called,
         labelOutcome |-> IF t1.called THEN o1 ELSE "none",
         adviceOutcome |-> IF t2.called THEN o2 ELSE "none",
         disease_translated |-> t1.result, prevention_translated |-> t2.result,
         saved |-> TRUE,
         page |->
           << Element("success", t1.result, 0), Element("write", << >>, confidence) >>
           \o (IF LowConfidence(confidence)
               THEN << Element("warning", << >>, 0) >> ELSE << >>)
           \o << Element("subheader", << >>, 0), Element("info", t2.result, 0) >> ]

NoRequest ==
  [ status |-> "none", plant |-> "", lang_code |-> DefaultLang,
    predictCalls |-> 0, pred |-> << >>, idx |-> 0, confidence |-> 0,
    predicted_class |-> << >>, prevention |-> << >>,
    lookups |-> 0, labelCalled |-> FALSE, adviceCalled |-> FALSE,
    labelOutcome |-> "none", adviceOutcome |-> "none",
    disease_translated |-> << >>, prevention_translated |-> << >>,
    saved |-> FALSE, page |-> << >> ]

\* ------------------------------------------------------------ state

VARIABLES
  files,        \* per plant: which of <plant>.h5, _class_map.json, _prevention.json exist, and their content
  mapsCache,    \* st.cache_resource entry of load_class_and_prevention_maps
  mapsLoads,    \* executions of load_class_and_prevention_maps' body
  modelCache,   \* st.cache_resource entries of load_plant_model, per plant_name
  modelLoads,   \* executions of load_plant_model's body, per plant_name
  notices,      \* st.warning / st.error elements the loaders have emitted
  sess,         \* per browser session: the position of its script run and its locals
  last,         \* what the latest run of the Detect Disease branch did and displayed
  probe         \* single-request model: the request's inputs and its position

vars == << files, mapsCache, mapsLoads, modelCache,
           modelLoads, notices, sess, last, probe >>

NoMaps ==
  [ obj |-> 0,
    inv_maps |-> [p \in Registry |-> EmptyMap],
    prevention_maps |-> [p \in Registry |-> EmptyMap] ]

Unset(v) == [set |-> FALSE, value |-> v]

IdleSession == [pc |-> "idle", plant |-> "", maps |-> NoMaps, model |-> None]

\* A plant with all three of its files.
CompleteFiles ==
  [ model |-> TRUE,
    classMap |-> File(TRUE, SourceRoundTrip),
    prevention |-> File(TRUE, PreventionSpot) ]

\* Files of a plant in the application model: the model file may be missing.
PlantFiles == { [CompleteFiles EXCEPT !.model = m] : m \in BOOLEAN }

\* Score vectors the predictor returns in the application model.
SampleOutputs == { << 4, 4 >> }

\* Files of the requested plant in the single-request model: each of the
\* three present or not, with every bounded class map.
RichPlantFiles ==
  [ model : BOOLEAN,
    classMap : { File(FALSE, << >>) } \cup { File(TRUE, c) : c \in ClassMapSources },
    prevention : { File(FALSE, EmptyMap), File(TRUE, PreventionSpot),
                   File(TRUE, PreventionOdd) } ]

\* Score vectors tried against every RichPlantFiles.
RequestOutputs == { << 4, 4 >>, << 1, 6 >>, << 5 >> }

NoProbe ==
  [ phase |-> "off", plant |-> "", lang_code |-> DefaultLang, pred |-> << 0 >>,
    o1 |-> "ok", o2 |-> "ok" ]

Init ==
  /\ files \in [Registry -> PlantFiles]
  /\ mapsCache = Unset(NoMaps)
  /\ mapsLoads = 0
  /\ modelCache = [p \in Registry |-> Unset(None)]
  /\ modelLoads = [p \in Registry |-> 0]
  /\ notices = {}
  /\ sess = [s \in Sessions |-> IdleSession]
  /\ last = NoRequest
  /\ probe = NoProbe

\* ------------------------------------------------------------ st.cache_resource
\* Both loaders are decorated with @st.cache_resource (lines 135, 165), one
\* process-wide entry per argument tuple, never evicted (no ttl, no
\* max_entries). A call first reads the entry without a lock; on a miss it
\* takes the entry's compute lock, reads again, and only if the value is
\* still missing runs the function body and stores what it returned (None
\* included). The value is handed out by reference, not copied. The
\* critical section is one action here: MapsCompute, ModelCompute.

CacheNever(entry) == FALSE

\* The decorator's lookup: a value stored under the call's key
CacheHit(entry) == entry.set

\* ------------------------------------------------------------ a script run

\* Line 175 of a script run: the cache holds the maps.
MapsCacheHit(s) ==
  /\ sess[s].pc = "idle"
  /\ CacheHit(mapsCache)
  /\ sess' = [sess EXCEPT ![s].pc = "ui", ![s].maps = mapsCache.value]
  /\ UNCHANGED << files, mapsCache, mapsLoads, modelCache,
                  modelLoads, notices, last, probe >>

\* Line 175 of a script run: the cache does not hold the maps yet.
MapsCacheMiss(s) ==
  /\ sess[s].pc = "idle"
  /\ ~ CacheHit(mapsCache)
  /\ sess' = [sess EXCEPT ![s].pc = "maps_wait"]
  /\ UNCHANGED << files, mapsCache, mapsLoads, modelCache,
                  modelLoads, notices, last, probe >>

\* The critical section of the entry's compute lock, which one thread at a
\* time executes: look again, run the function if the value is still
\* missing, store it.
MapsCompute(s) ==
  /\ sess[s].pc = "maps_wait"
  /\ IF CacheHit(mapsCache)
     THEN /\ sess' = [sess EXCEPT ![s].pc = "ui", ![s].maps = mapsCache.value]
          /\ UNCHANGED << mapsCache, mapsLoads, notices >>
     ELSE LET r == load_class_and_prevention_maps(files, mapsLoads + 1)
          IN /\ mapsLoads' = mapsLoads + 1
             /\ mapsCache' = [set |-> TRUE, value |-> r.value]
             /\ notices' = notices \cup r.notices
             /\ sess' = [sess EXCEPT ![s].pc = "ui", ![s].maps = r.value]
  /\ UNCHANGED << files, modelCache, modelLoads, last, probe >>

\* The script run is over; its locals are gone.
EndRun(s) == [sess EXCEPT ![s] = IdleSession]

\* Lines 209-213, 254-255: no file uploaded, or the button not pressed.
NoDetect(s) ==
  /\ sess[s].pc = "ui"
  /\ sess' = EndRun(s)
  /\ UNCHANGED << files, mapsCache, mapsLoads, modelCache,
                  modelLoads, notices, last, probe >>

\* Line 215 with the selected plant: the cache holds its model.
ModelCacheHit(s) ==
  /\ sess[s].pc = "ui"
  /\ \E plant \in Registry :
       /\ CacheHit(modelCache[plant])
       /\ sess' = [sess EXCEPT ![s].pc = "have_model", ![s].plant = plant,
                                ![s].model = modelCache[plant].value]
  /\ UNCHANGED << files, mapsCache, mapsLoads, modelCache,
                  modelLoads, notices, last, probe >>

ModelCacheMiss(s) ==
  /\ sess[s].pc = "ui"
  /\ \E plant \in Registry :
       /\ ~ CacheHit(modelCache[plant])
       /\ sess' = [sess EXCEPT ![s].pc = "model_wait", ![s].plant = plant]
  /\ UNCHANGED << files, mapsCache, mapsLoads, modelCache,
                  modelLoads, notices, last, probe >>

ModelCompute(s) ==
  LET plant == sess[s].plant IN
  /\ sess[s].pc = "model_wait"
  /\ IF CacheHit(modelCache[plant])
     THEN /\ sess' = [sess EXCEPT ![s].pc = "have_model",
                                   ![s].model = modelCache[plant].value]
          /\ UNCHANGED << modelCache, modelLoads, notices >>
     ELSE LET r == load_plant_model(plant, files, modelLoads[plant] + 1)
          IN /\ modelLoads' = [modelLoads EXCEPT ![plant] = @ + 1]
             /\ modelCache' = [modelCache EXCEPT ![plant] = [set |-> TRUE, value |-> r.value]]
             /\ notices' = notices \cup r.notices
             /\ sess' = [sess EXCEPT ![s].pc = "have_model", ![s].model = r.value]
  /\ UNCHANGED << files, mapsCache, mapsLoads, last, probe >>

\* Lines 217-248 with the model load_plant_model returned.
Detect(s) ==
  /\ sess[s].pc = "have_model"
  /\ \E lang_code \in lang_options, pred \in SampleOutputs, o1 \in Outcomes, o2 \in Outcomes :
       last' = DetectDisease(sess[s].model, sess[s].maps.inv_maps,
                             sess[s].maps.prevention_maps, sess[s].plant,
                             lang_code, pred, o1, o2)
  /\ sess' = EndRun(s)
  /\ UNCHANGED << files, mapsCache, mapsLoads, modelCache,
                  modelLoads, notices, probe >>

Next ==
  \E s \in Sessions :
    \/ MapsCacheHit(s)
    \/ MapsCacheMiss(s)
    \/ MapsCompute(s)
    \/ NoDetect(s)
    \/ ModelCacheHit(s)
    \/ ModelCacheMiss(s)
    \/ ModelCompute(s)
    \/ Detect(s)

Spec == Init /\ [][Next]_vars

\* ------------------------------------------------------------ single request
\* One "Detect Disease" request on a freshly started process, its inputs
\* (files on disk, language, predictor output, translation backend behaviour)
\* drawn from the bounded sets: lines 175, 215, 217-248 in turn.

RequestInit ==
  /\ mapsCache = Unset(NoMaps)
  /\ mapsLoads = 0
  /\ modelCache = [p \in Registry |-> Unset(None)]
  /\ modelLoads = [p \in Registry |-> 0]
  /\ notices = {}
  /\ sess = [s \in Sessions |-> IdleSession]
  /\ last = NoRequest
  /\ \E plant \in Registry, lang_code \in lang_options, o1 \in Outcomes, o2 \in Outcomes :
       \/ \E pf \in RichPlantFiles, pred \in RequestOutputs :
            /\ files = [p \in Registry |-> IF p = plant THEN pf ELSE CompleteFiles]
            /\ probe = [ phase |-> "input", plant |-> plant, lang_code |-> lang_code,
                         pred |-> pred, o1 |-> o1, o2 |-> o2 ]
       \/ \E pred \in Vectors :
            /\ files = [p \in Registry |-> CompleteFiles]
            /\ probe = [ phase |-> "input", plant |-> plant, lang_code |-> lang_code,
                         pred |-> pred, o1 |-> o1, o2 |-> o2 ]

\* Line 175 on an empty cache.
RequestMaps ==
  /\ probe.phase = "input"
  /\ LET r == load_class_and_prevention_maps(files, mapsLoads + 1)
     IN /\ mapsLoads' = mapsLoads + 1
        /\ mapsCache' = [set |-> TRUE, value |-> r.value]
        /\ notices' = notices \cup r.notices
  /\ probe' = [probe EXCEPT !.phase = "maps"]
  /\ UNCHANGED << files, modelCache, modelLoads, sess, last >>

\* Line 215 on an empty cache.
RequestModel ==
  /\ probe.phase = "maps"
  /\ LET r == load_plant_model(probe.plant, files, modelLoads[probe.plant] + 1)
     IN /\ modelLoads' = [modelLoads EXCEPT ![probe.plant] = @ + 1]
        /\ modelCache' = [modelCache EXCEPT ![probe.plant] = [set |-> TRUE, value |-> r.value]]
        /\ notices' = notices \cup r.notices
  /\ probe' = [probe EXCEPT !.phase = "model"]
  /\ UNCHANGED << files, mapsCache, mapsLoads, sess, last >>

\* Lines 217-248.
RequestDetect ==
  /\ probe.phase = "model"
  /\ last' = DetectDisease(modelCache[probe.plant].value, mapsCache.value.inv_maps,
                           mapsCache.value.prevention_maps, probe.plant,
                           probe.lang_code, probe.pred, probe.o1, probe.o2)
  /\ probe' = [probe EXCEPT !.phase = "done"]
  /\ UNCHANGED << files, mapsCache, mapsLoads, modelCache, modelLoads, notices, sess >>

RequestNext == RequestMaps \/ RequestModel \/ RequestDetect

SpecRequest == RequestInit /\ [][RequestNext]_vars

\* ------------------------------------------------------------ properties

MissingModelNotice(plant) == Notice("error", "model", plant)

HasWarning(page) == \E i \in 1..Len(page) : page[i].kind = "warning"

\* C1: a Detect Disease request for a plant whose model file is absent gets
\* None from load_plant_model, never calls model.predict and performs no
\* later step (no label / advice lookup, no translation call, no image
\* save, no result elements): it shows one error and stops, and by then the
\* "Model not found" notice for that plant has been emitted.
C1_MissingModelStops ==
  /\ \A s \in Sessions :
       (sess[s].pc = "have_model" /\ ~ files[sess[s].plant].model)
         => /\ sess[s].model = None
            /\ MissingModelNotice(sess[s].plant) \in notices
  /\ (last.status # "none" /\ ~ files[last.plant].model)
       => /\ last.status = "stopped"
          /\ last.predictCalls = 0
          /\ last.lookups = 0
          /\ ~ last.labelCalled /\ ~ last.adviceCalled
          /\ ~ last.saved
          /\ last.page = << Element("error", << >>, 0) >>
          /\ MissingModelNotice(last.plant) \in notices

\* A request for a missing model has stopped while another session holds
\* the cached None of the same plant.
C1_Witness ==
  /\ last.status = "stopped"
  /\ ~ files[last.plant].model
  /\ \E s \in Sessions : sess[s].pc = "have_model" /\ sess[s].plant = last.plant

\* C2: the body of load_class_and_prevention_maps runs at most once, and
\* the body of load_plant_model at most once per plant, however the
\* sessions' first calls interleave; it has run exactly once as soon as the
\* value is cached or any call has returned, and every call returns the
\* one cached object.
C2_LoadOnce ==
  /\ mapsLoads <= 1
  /\ mapsCache.set <=> mapsLoads = 1
  /\ mapsCache.set => mapsCache.value.obj = 1
  /\ \A p \in Registry :
       /\ modelLoads[p] <= 1
       /\ modelCache[p].set <=> modelLoads[p] = 1
       /\ (modelCache[p].set /\ files[p].model) => modelCache[p].value.obj = 1
  /\ \A s \in Sessions :
       /\ sess[s].pc \in { "ui", "model_wait", "have_model" }
            => mapsLoads = 1 /\ sess[s].maps = mapsCache.value
       /\ sess[s].pc = "have_model"
            => /\ modelLoads[sess[s].plant] = 1
               /\ sess[s].model = modelCache[sess[s].plant].value

\* Two sessions made the first call for one plant concurrently: one has
\* loaded the model, the other missed the cache before that and has still
\* to enter the critical section.
C2_Witness ==
  \E s1 \in Sessions, s2 \in Sessions :
    /\ s1 # s2
    /\ sess[s1].pc = "model_wait"
    /\ sess[s2].pc = "have_model"
    /\ sess[s1].plant = sess[s2].plant
    /\ sess[s2].model.present
    /\ modelCache[sess[s1].plant].set

\* The requested plant's loaded maps and files, in the single-request model.
ReqInv == mapsCache.value.inv_maps[probe.plant]
ReqPrev == mapsCache.value.prevention_maps[probe.plant]
ReqFiles == files[probe.plant]

\* The text handed to translate_text for the label.
LabelText == ReplaceUnderscore(last.predicted_class)

\* C4: when the external translation call fails for the label (the advice),
\* the translated label (advice) is the text that was handed to
\* translate_text, unchanged; the other field, if its own call succeeds, is
\* still translated; the request completes with its full result and no
\* error element.
C4_TranslationFailureAbsorbed ==
  last.status = "ok" =>
    /\ last.labelOutcome = "raise" => last.disease_translated = LabelText
    /\ last.adviceOutcome = "raise" => last.prevention_translated = last.prevention
    /\ last.labelOutcome = "ok"
         => last.disease_translated = GoogleTranslate(LabelText, last.lang_code)
    /\ last.adviceOutcome = "ok"
         => last.prevention_translated = GoogleTranslate(last.prevention, last.lang_code)
    /\ (last.labelOutcome = "raise" \/ last.adviceOutcome = "raise")
         => /\ last.saved
            /\ \A i \in 1..Len(last.page) : last.page[i].kind # "error"
            /\ last.page[1] = Element("success", last.disease_translated, 0)
            /\ last.page[Len(last.page)] = Element("info", last.prevention_translated, 0)

\* The label's translation failed and the advice's succeeded.
C4_Witness ==
  /\ last.status = "ok"
  /\ last.labelOutcome = "raise"
  /\ last.adviceOutcome = "ok"
  /\ last.prevention_translated # last.prevention

\* C5: translate_text calls the external translation exactly when the
\* language is not "en" and the text is not empty; otherwise it returns the
\* text unchanged.
C5_FastPath ==
  last.status = "ok" =>
    /\ last.labelCalled <=> (last.lang_code # "en" /\ LabelText # << >>)
    /\ last.adviceCalled <=> (last.lang_code # "en" /\ last.prevention # << >>)
    /\ ~ last.labelCalled => last.disease_translated = LabelText
    /\ ~ last.adviceCalled => last.prevention_translated = last.prevention

\* A non-default language with an empty advice text: the label is sent to
\* the external translation, the advice is not.
C5_Witness ==
  /\ last.status = "ok"
  /\ last.lang_code # "en"
  /\ last.prevention = << >>
  /\ last.labelCalled
  /\ ~ last.adviceCalled

\* C6: idx is the lowest position holding the maximum of the predictor's
\* score vector, and confidence is the score at idx as returned.
C6_ArgmaxFirst ==
  last.status = "ok" =>
    /\ last.pred = probe.pred
    /\ last.idx \in 0..(Len(last.pred) - 1)
    /\ \A i \in 1..Len(last.pred) :
         /\ last.pred[i] <= last.pred[last.idx + 1]
         /\ i < last.idx + 1 => last.pred[i] < last.pred[last.idx + 1]
    /\ last.confidence = last.pred[last.idx + 1]
    /\ last.page[2] = Element("write", << >>, last.pred[last.idx + 1])

\* A vector whose maximum occurs twice.
C6_Witness ==
  /\ last.status = "ok"
  /\ \E i \in 1..Len(last.pred), j \in 1..Len(last.pred) :
       /\ i < j
       /\ last.pred[i] = last.pred[j]
       /\ \A k \in 1..Len(last.pred) : last.pred[k] <= last.pred[i]

\* C7: the index-to-label map of a plant is built from its class-map file
\* by setting map[index] = label for each (label, index) pair in file
\* order: its keys are the file's indexes, and each index maps to the label
\* of the last pair carrying it (so a file with distinct indexes is
\* inverted exactly).
C7_InverseMap ==
  (mapsCache.set /\ probe.phase # "off" /\ ReqFiles.classMap.exists) =>
    LET src == ReqFiles.classMap.content
    IN /\ DOMAIN ReqInv = { src[i][2] : i \in 1..Len(src) }
       /\ \A i \in 1..Len(src) :
            (\A j \in (i + 1)..Len(src) : src[j][2] # src[i][2])
              => ReqInv[src[i][2]] = src[i][1]

\* A class map with one index under two labels has been loaded.
C7_Witness ==
  /\ mapsCache.set
  /\ probe.phase # "off"
  /\ ReqFiles.classMap.exists
  /\ LET src == ReqFiles.classMap.content
     IN /\ Len(src) = 2
        /\ src[1][2] = src[2][2]
        /\ ReqInv[src[1][2]] = src[2][1]

\* C8: the low-confidence warning is displayed exactly when confidence is
\* below 0.5, and the page is otherwise the same: the detected label, the
\* confidence, the tips header and the advice.
C8_LowConfidence ==
  last.status = "ok" =>
    LET head == << Element("success", last.disease_translated, 0),
                   Element("write", << >>, last.confidence) >>
        tail == << Element("subheader", << >>, 0),
                   Element("info", last.prevention_translated, 0) >>
    IN /\ HasWarning(last.page) <=> last.confidence < LOW_CONFIDENCE
       /\ last.page = IF last.confidence < LOW_CONFIDENCE
                      THEN head \o << Element("warning", << >>, 0) >> \o tail
                      ELSE head \o tail

\* A prediction with confidence exactly 0.5, shown without the warning.
C8_Witness ==
  /\ last.status = "ok"
  /\ last.confidence = LOW_CONFIDENCE
  /\ ~ HasWarning(last.page)

\* C9: for the requested plant, each of the three files on its own: when it
\* is absent the load still completes, that resource alone is None / an
\* empty map and its notice has been emitted; when it is present the
\* resource is loaded from it and no notice is emitted for it.
C9_MissingResources ==
  probe.phase \in { "model", "done" } =>
    LET p == probe.plant
        m == modelCache[p].value
    IN /\ mapsCache.set /\ modelCache[p].set
       /\ IF ReqFiles.model
          THEN m.present /\ m.plant = p /\ MissingModelNotice(p) \notin notices
          ELSE m = None /\ MissingModelNotice(p) \in notices
       /\ IF ReqFiles.classMap.exists
          THEN /\ DOMAIN ReqInv =
                    { ReqFiles.classMap.content[i][2] : i \in 1..Len(ReqFiles.classMap.content) }
               /\ Notice("warning", "class_map", p) \notin notices
          ELSE /\ ReqInv = EmptyMap
               /\ Notice("warning", "class_map", p) \in notices
       /\ IF ReqFiles.prevention.exists
          THEN /\ ReqPrev = ReqFiles.prevention.content
               /\ Notice("warning", "prevention", p) \notin notices
          ELSE /\ ReqPrev = EmptyMap
               /\ Notice("warning", "prevention", p) \in notices
       /\ \A q \in Registry \ {p} :
            /\ mapsCache.value.inv_maps[q] # EmptyMap
            /\ mapsCache.value.prevention_maps[q] # EmptyMap
            /\ \A n \in notices : n[3] # q

\* Only the class-map file of the plant is absent.
C9_Witness ==
  /\ probe.phase = "done"
  /\ ReqFiles.model
  /\ ~ ReqFiles.classMap.exists
  /\ ReqFiles.prevention.exists
  /\ ReqInv = EmptyMap
  /\ ReqPrev # EmptyMap
  /\ modelCache[probe.plant].value.present

\* C10: with the model present the request completes; the label is the
\* index-to-label entry of idx, or "Unknown Disease" when idx has none; the
\* advice is the advice entry of that label, or "No prevention advice
\* available." when the label has none.
C10_SentinelDefaults ==
  (probe.phase = "done" /\ ReqFiles.model) =>
    /\ last.status = "ok"
    /\ Len(last.page) >= 4
    /\ last.predicted_class =
         IF last.idx \in DOMAIN ReqInv THEN ReqInv[last.idx] ELSE UnknownDisease
    /\ last.prevention =
         IF last.predicted_class \in DOMAIN ReqPrev
         THEN ReqPrev[last.predicted_class] ELSE NoPreventionAdvice

\* Both metadata files absent: the request completes with both defaults.
C10_Witness ==
  /\ probe.phase = "done"
  /\ last.status = "ok"
  /\ ~ ReqFiles.classMap.exists
  /\ ~ ReqFiles.prevention.exists
  /\ last.predicted_class = UnknownDisease
  /\ last.prevention = NoPreventionAdvice

====
